---------------------------- MODULE Spec2Model ----------------------------
(***************************************************************************)
(* TinyRAG (toxac/tinyrag): the core class TinyRAG of src/rag/rag.py and   *)
(* the FastAPI handlers /load-text and /query of src/api/api.py.           *)
(*                                                                         *)
(* Text is a sequence of one-character strings.  A Document is a record    *)
(* [page_content, source].  The persisted Chroma collection under          *)
(* ../vector_db is the sequence `collection`; the data directory ../data   *)
(* is the function `files`.                                                *)
(*                                                                         *)
(* Two specifications:                                                     *)
(*   Spec     the public operations of one TinyRAG instance, called        *)
(*            directly in any order, the backends failing at will;         *)
(*   SpecApi  the HTTP service: requests arrive at any time and are run    *)
(*            as coroutines on uvicorn's single event loop.                *)
(***************************************************************************)
EXTENDS Integers, Sequences, FiniteSets, TLC

VARIABLES
    files,        \* ../data: file name -> text, or NoFile
    collection,   \* ../vector_db: the persisted documents, in insertion order
    vectorstore,  \* TinyRAG.vectorstore: None or the Chroma handle
    qa_chain,     \* TinyRAG.qa_chain: None or the RetrievalQA chain
    ret,          \* the last call of a TinyRAG operation and what came of it
    created,      \* whether some create_qa_chain call has returned
    rag_system,   \* api.py's global: None or the TinyRAG instance
    task,         \* the requests in flight, one record per connection slot
    loop,         \* the coroutine the event loop is running, 0 when it is idle
    ingested,     \* file name -> how the latest /load-text of that name ended
    observed      \* where the /load-text requests stood when /query last ran

vars == <<files, collection, vectorstore, qa_chain, ret, created,
          rag_system, task, loop, ingested, observed>>

coreVars == <<files, collection, vectorstore, qa_chain, ret, created>>
apiVars  == <<rag_system, task, loop, ingested, observed>>

-----------------------------------------------------------------------------
(* Bounds of the model *)

MaxColl == 3       \* documents the collection may hold
MaxAnswer == 2     \* largest max_length passed to TinyRAG.query directly
NTasks == 2        \* requests the service holds at once

(* Constants of the program *)

chunk_size == 300
chunk_overlap == 30
retriever_k == 2
ExcerptLen == 100
DefaultMaxLength == 150

None == "None"
NoFile == "NoFile"
NoSource == "NoSource"
Handle == "Chroma(../vector_db)"
Chain == "RetrievalQA"
model_name == "tinyllama"

-----------------------------------------------------------------------------
(* Text *)

Whitespace == {" ", "\n", "\t"}
Ellipsis == <<".", ".", ".">>
separator == <<"\n">>

Min(S) == CHOOSE x \in S : \A y \in S : x <= y
Max(S) == CHOOSE x \in S : \A y \in S : x >= y

Rep(c, n) == [i \in 1..n |-> c]

\* s[:n]
Take(s, n) == SubSeq(s, 1, IF n < Len(s) THEN n ELSE Len(s))

\* s.strip()
Strip(s) ==
    LET keep == {i \in 1..Len(s) : s[i] \notin Whitespace}
    IN  IF keep = {} THEN <<>> ELSE SubSeq(s, Min(keep), Max(keep))

\* [p for p in re.split(sep, text) if p != ""], sep one character
RECURSIVE SplitText(_, _)
SplitText(s, sep) ==
    IF s = <<>> THEN <<>>
    ELSE LET hits == {i \in 1..Len(s) : s[i] = sep}
         IN  IF hits = {} THEN <<s>>
             ELSE LET i == Min(hits)
                      rest == SplitText(SubSeq(s, i + 1, Len(s)), sep)
                  IN  IF i = 1 THEN rest ELSE <<SubSeq(s, 1, i - 1)>> \o rest

\* sep.join(docs)
RECURSIVE Join(_, _)
Join(docs, sep) ==
    IF docs = <<>> THEN <<>>
    ELSE IF Len(docs) = 1 THEN docs[1]
    ELSE docs[1] \o sep \o Join(Tail(docs), sep)

\* TextSplitter._join_docs: the joined, stripped text; empty stands for None
JoinDocs(docs, sep) == Strip(Join(docs, sep))

\* the inner while loop of TextSplitter._merge_splits
RECURSIVE PopWhile(_, _, _, _)
PopWhile(cur, total, dlen, seplen) ==
    IF \/ total > chunk_overlap
       \/ /\ total + dlen + (IF Len(cur) > 0 THEN seplen ELSE 0) > chunk_size
          /\ total > 0
    THEN PopWhile(Tail(cur),
                  total - (Len(cur[1]) + (IF Len(cur) > 1 THEN seplen ELSE 0)),
                  dlen, seplen)
    ELSE [cur |-> cur, total |-> total]

\* TextSplitter._merge_splits, from split i on
RECURSIVE MergeFrom(_, _, _, _, _, _)
MergeFrom(splits, i, docs, cur, total, sep) ==
    IF i > Len(splits)
    THEN LET doc == JoinDocs(cur, sep)
         IN  IF doc = <<>> THEN docs ELSE Append(docs, doc)
    ELSE LET d == splits[i]
             seplen == Len(sep)
             over == total + Len(d) + (IF Len(cur) > 0 THEN seplen ELSE 0)
                         > chunk_size
             flush == over /\ Len(cur) > 0
             doc == JoinDocs(cur, sep)
             docs1 == IF flush /\ doc # <<>> THEN Append(docs, doc) ELSE docs
             popped == IF flush THEN PopWhile(cur, total, Len(d), seplen)
                       ELSE [cur |-> cur, total |-> total]
             cur2 == Append(popped.cur, d)
             total2 == popped.total + Len(d)
                           + (IF Len(cur2) > 1 THEN seplen ELSE 0)
         IN  MergeFrom(splits, i + 1, docs1, cur2, total2, sep)

\* CharacterTextSplitter(chunk_size, chunk_overlap, separator).split_text
split_text(text) ==
    MergeFrom(SplitText(text, separator[1]), 1, <<>>, <<>>, 0, separator)

\* TextLoader(file_path).load() then split_documents: every chunk carries the
\* metadata of the loaded document, {"source": file_path}
split_documents(text, file_path) ==
    LET chunks == split_text(text)
    IN  [i \in 1..Len(chunks) |-> [page_content |-> chunks[i], source |-> file_path]]


-----------------------------------------------------------------------------
(* Inputs *)

FileNames == {"a.txt"}
MissingPath == "missing.txt"
Paths == FileNames \cup {MissingPath}

DocEmpty == <<>>
DocShort == <<"c", "a", "t", "\n", "d", "o", "g">>
DocLong == Rep("a", 200) \o separator \o Rep("b", 20) \o separator \o Rep("c", 150)
Contents == {DocEmpty, DocShort, DocLong}

\* documents a caller hands to setup_vectorstore without load_documents:
\* no "source" in the metadata, page_content of ExcerptLen characters
DirectDocs == <<[page_content |-> Rep("x", ExcerptLen), source |-> NoSource]>>

\* what a caller may hand to setup_vectorstore: what load_documents returns
\* for some file, or documents of its own
TextsInputs ==
    {split_documents(c, f) : c \in Contents, f \in FileNames} \cup {DirectDocs}

\* what the model backend may return as result["result"]
RawOutputs ==
    { <<"a">>, <<"a", "b">>, <<" ", "a", "b">>, <<"a", "b", "c", "\n">>,
      <<" ", "a", "b", "c", "d">> }

-----------------------------------------------------------------------------
(* TinyRAG, src/rag/rag.py *)

ErrNoChain == <<"Please initialize QA chain first">>
ErrBackend == <<"str(e)">>

\* TinyRAG.load_documents: the chunks, or [] when the file is missing or the
\* loader raises (readOk = FALSE)
load_documents(file_path, readOk) ==
    IF file_path \notin DOMAIN files \/ files[file_path] = NoFile \/ ~readOk
    THEN <<>>
    ELSE split_documents(files[file_path], file_path)

\* the retriever of create_qa_chain, search_kwargs k: the k nearest documents
\* of the collection (all of them when it holds fewer), nearest first; which
\* are nearest is the embedding model's choice
Retrieve(coll) ==
    LET n == IF Len(coll) < retriever_k THEN Len(coll) ELSE retriever_k
        picks == {p \in [1..n -> 1..Len(coll)] :
                     \A i, j \in 1..n : i # j => p[i] # p[j]}
    IN  {[i \in 1..n |-> coll[p[i]]] : p \in picks}

\* self.qa_chain({"query": question}): raises, or returns result and
\* source_documents
ChainOutcomes(coll, raws) ==
    {[raised |-> TRUE, result |-> <<>>, source_documents |-> <<>>]}
    \cup {[raised |-> FALSE, result |-> r, source_documents |-> d] :
              r \in raws, d \in Retrieve(coll)}

\* Answer, cutting so that the ellipsis fits within max_length
AnswerWithinLimit(raw, max_length) ==
    LET answer == Strip(raw)
    IN  IF Len(answer) > max_length
        THEN Take(answer, IF max_length > 3 THEN max_length - 3 ELSE 0) \o Ellipsis
        ELSE answer

\* lines 82-84: the answer from result["result"]
Answer(raw, max_length) ==
    LET answer == Strip(raw)
    IN  IF Len(answer) > max_length THEN Take(answer, max_length) \o Ellipsis
        ELSE answer

\* Excerpt, cutting from ExcerptLen characters on
ExcerptFromLimit(page_content) ==
    IF Len(page_content) >= ExcerptLen
    THEN Take(page_content, ExcerptLen) \o Ellipsis
    ELSE page_content

\* line 90: the excerpt of one source document
Excerpt(page_content) ==
    IF Len(page_content) > ExcerptLen
    THEN Take(page_content, ExcerptLen) \o Ellipsis
    ELSE page_content

\* line 91: doc.metadata.get('source', 'unknown')
SourceOf(doc) == IF doc.source = NoSource THEN "unknown" ELSE doc.source

\* lines 88-93
Sources(docs) ==
    [i \in 1..Len(docs) |->
        [content |-> Excerpt(docs[i].page_content), source |-> SourceOf(docs[i])]]

\* NotInitialized, answering with no evidence instead of an error
NotInitializedSilent == [answer |-> <<>>, sources |-> <<>>, model |-> model_name]

\* line 77: the result while qa_chain is unset
NotInitialized == [error |-> ErrNoChain]

\* TinyRAG.query: the dict it returns
QueryResult(chain, max_length, out) ==
    IF chain = None THEN NotInitialized
    ELSE IF out.raised THEN [error |-> ErrBackend, model |-> model_name]
    ELSE [answer |-> Answer(out.result, max_length),
          sources |-> Sources(out.source_documents),
          model |-> model_name]

\* no call of the chain
NoOut == [raised |-> FALSE, result |-> <<>>, source_documents |-> <<>>]

\* the record of one call: the operation, whether it returned or raised, the
\* value returned, and for query whether the chain was called, what the chain
\* did and the max_length in force
Call(op, outcome, value, called, out, max_length) ==
    [op |-> op, outcome |-> outcome, value |-> value, called |-> called,
     out |-> out, max_length |-> max_length]

Returned(op, value) == Call(op, "returned", value, FALSE, NoOut, 0)
Raised(op) == Call(op, "raised", None, FALSE, NoOut, 0)

\* TinyRAG.setup_vectorstore: Chroma.from_documents adds the documents to the
\* persisted collection and returns the handle, or raises and nothing is
\* assigned
setup_vectorstore(t, backendOk) ==
    /\ backendOk => Len(collection) + Len(t) <= MaxColl
    /\ IF backendOk
       THEN /\ collection' = collection \o t
            /\ vectorstore' = Handle
            /\ ret' = Returned("setup_vectorstore", None)
       ELSE /\ UNCHANGED <<collection, vectorstore>>
            /\ ret' = Raised("setup_vectorstore")
    /\ UNCHANGED <<qa_chain, created>>

\* create_qa_chain without the check of line 58
create_qa_chain_unguarded ==
    /\ qa_chain' = Chain
    /\ created' = TRUE
    /\ ret' = Returned("create_qa_chain", None)
    /\ UNCHANGED <<collection, vectorstore>>

\* TinyRAG.create_qa_chain
create_qa_chain ==
    /\ IF vectorstore = None
       THEN /\ UNCHANGED <<qa_chain, created>>
            /\ ret' = Raised("create_qa_chain")
       ELSE /\ qa_chain' = Chain
            /\ created' = TRUE
            /\ ret' = Returned("create_qa_chain", None)
    /\ UNCHANGED <<collection, vectorstore>>

\* TinyRAG.query
query(max_length, out) ==
    /\ ret' = Call("query", "returned", QueryResult(qa_chain, max_length, out),
                   qa_chain # None, IF qa_chain = None THEN NoOut ELSE out,
                   max_length)
    /\ UNCHANGED <<collection, vectorstore, qa_chain, created>>

-----------------------------------------------------------------------------
(* The service, src/api/api.py *)

Tasks == 1..NTasks

FreeTask ==
    [kind |-> "none", filename |-> "", content |-> <<>>, pc |-> "free",
     texts |-> <<>>]

\* the documents posted to /load-text
ApiContents == {DocShort, DocLong}

\* what the model backend returns to the service's queries
ApiRawOutputs == {<<"a", "b">>}

\* AwaitPoints, were each call of a TinyRAG operation awaited
AwaitEachCall == {"load", "setup", "create"}

\* AwaitPoints, were create_qa_chain alone awaited
AwaitBeforeCreate == {"create"}

\* the places of load_text and query where the coroutine awaits, handing the
\* event loop to another request: both bodies are synchronous throughout
AwaitPoints == {}

\* the pcs of a /load-text that has begun and not yet ended
InProgress == {"load", "setup", "create"}

\* the event loop runs t: it is idle, or t is the coroutine it is inside
Scheduled(t) == loop = 0 \/ loop = t

\* the loop after t moved to pc: t keeps it unless it ended or awaits
LoopAfter(t, pc) == IF pc = "free" \/ pc \in AwaitPoints THEN 0 ELSE t

\* a request arrives and its handler is scheduled
Accept(t) ==
    /\ task[t].pc = "free"
    /\ \/ \E f \in FileNames, c \in ApiContents :
              task' = [task EXCEPT ![t] = [kind |-> "load_text", filename |-> f,
                                           content |-> c, pc |-> "ready",
                                           texts |-> <<>>]]
       \/ task' = [task EXCEPT ![t] = [FreeTask EXCEPT !.kind = "query",
                                                        !.pc = "ready"]]
    /\ UNCHANGED <<coreVars, rag_system, loop, ingested, observed>>

\* load_text, lines 109-119: HTTP 400 without a RAG system, else the content
\* is written to ../data/<filename>
LtWrite(t) ==
    /\ task[t].kind = "load_text" /\ task[t].pc = "ready"
    /\ Scheduled(t)
    /\ IF ~rag_system
       THEN /\ task' = [task EXCEPT ![t] = FreeTask]
            /\ loop' = LoopAfter(t, "free")
            /\ UNCHANGED <<files, ingested>>
       ELSE /\ files' = [files EXCEPT ![task[t].filename] = task[t].content]
            /\ ingested' = [ingested EXCEPT ![task[t].filename] = "running"]
            /\ task' = [task EXCEPT ![t].pc = "load"]
            /\ loop' = LoopAfter(t, "load")
    /\ UNCHANGED <<collection, vectorstore, qa_chain, ret, created, rag_system,
                   observed>>

\* load_text, line 122
LtLoad(t) ==
    /\ task[t].kind = "load_text" /\ task[t].pc = "load"
    /\ Scheduled(t)
    /\ \E readOk \in BOOLEAN :
          LET loaded == load_documents(task[t].filename, readOk)
          IN  /\ task' = [task EXCEPT ![t].texts = loaded, ![t].pc = "setup"]
              /\ ret' = Returned("load_documents", loaded)
    /\ loop' = LoopAfter(t, "setup")
    /\ UNCHANGED <<files, collection, vectorstore, qa_chain, created,
                   rag_system, ingested, observed>>

\* load_text, line 123, and lines 133-134 when it raises: HTTP 500
LtSetup(t) ==
    /\ task[t].kind = "load_text" /\ task[t].pc = "setup"
    /\ Scheduled(t)
    /\ \E backendOk \in BOOLEAN :
          /\ setup_vectorstore(task[t].texts, backendOk)
          /\ IF backendOk
             THEN /\ task' = [task EXCEPT ![t].pc = "create"]
                  /\ loop' = LoopAfter(t, "create")
                  /\ UNCHANGED ingested
             ELSE /\ task' = [task EXCEPT ![t] = FreeTask]
                  /\ loop' = LoopAfter(t, "free")
                  /\ ingested' = [ingested EXCEPT ![task[t].filename] = "failed"]
    /\ UNCHANGED <<files, rag_system, observed>>

\* load_text, lines 124-131, and lines 133-134 when it raises
LtCreate(t) ==
    /\ task[t].kind = "load_text" /\ task[t].pc = "create"
    /\ Scheduled(t)
    /\ create_qa_chain
    /\ task' = [task EXCEPT ![t] = FreeTask]
    /\ loop' = LoopAfter(t, "free")
    /\ ingested' = [ingested EXCEPT ![task[t].filename] =
                        IF ret'.outcome = "returned" THEN "ok" ELSE "failed"]
    /\ UNCHANGED <<files, rag_system, observed>>

\* query, lines 139-146: HTTP 400 without a RAG system, else the result of
\* rag_system.query(question) with the default max_length
QRun(t) ==
    /\ task[t].kind = "query" /\ task[t].pc = "ready"
    /\ Scheduled(t)
    /\ IF ~rag_system
       THEN UNCHANGED <<collection, vectorstore, qa_chain, ret, created,
                        observed>>
       ELSE /\ \E out \in ChainOutcomes(collection, ApiRawOutputs) :
                  query(DefaultMaxLength, out)
            /\ observed' = {task[u].pc : u \in {v \in Tasks :
                                task[v].kind = "load_text"}}
    /\ task' = [task EXCEPT ![t] = FreeTask]
    /\ loop' = LoopAfter(t, "free")
    /\ UNCHANGED <<files, rag_system, ingested>>

\* lifespan, lines 24-32: the TinyRAG instance, or None when its
\* construction raised
InitApi ==
    /\ files = [f \in FileNames |-> NoFile]
    /\ collection = <<>>
    /\ vectorstore = None
    /\ qa_chain = None
    /\ ret = Returned("__init__", None)
    /\ created = FALSE
    /\ rag_system \in BOOLEAN
    /\ task = [t \in Tasks |-> FreeTask]
    /\ loop = 0
    /\ ingested = [f \in FileNames |-> "never"]
    /\ observed = {}

NextApi ==
    \/ \E t \in Tasks : Accept(t)
    \/ \E t \in Tasks : LtWrite(t)
    \/ \E t \in Tasks : LtLoad(t)
    \/ \E t \in Tasks : LtSetup(t)
    \/ \E t \in Tasks : LtCreate(t)
    \/ \E t \in Tasks : QRun(t)

SpecApi == InitApi /\ [][NextApi]_vars

-----------------------------------------------------------------------------
(* Spec: one TinyRAG instance driven directly, as test_direct_rag does *)

\* test.py lines 95-96: the caller writes the document file
WriteFile ==
    \E f \in FileNames, c \in Contents :
        /\ files' = [files EXCEPT ![f] = c]
        /\ ret' = Returned("open.write", None)
        /\ UNCHANGED <<collection, vectorstore, qa_chain, created, apiVars>>

CallLoadDocuments ==
    \E p \in Paths, readOk \in BOOLEAN :
        /\ ret' = Returned("load_documents", load_documents(p, readOk))
        /\ UNCHANGED <<files, collection, vectorstore, qa_chain, created,
                       apiVars>>

CallSetupVectorstore ==
    \E t \in TextsInputs, backendOk \in BOOLEAN :
        /\ setup_vectorstore(t, backendOk)
        /\ UNCHANGED <<files, apiVars>>

CallCreateQaChain ==
    /\ create_qa_chain
    /\ UNCHANGED <<files, apiVars>>

CallQuery ==
    \E max_length \in 1..MaxAnswer, out \in ChainOutcomes(collection, RawOutputs) :
        /\ query(max_length, out)
        /\ UNCHANGED <<files, apiVars>>

Init ==
    /\ files = [f \in FileNames |-> NoFile]
    /\ collection = <<>>
    /\ vectorstore = None
    /\ qa_chain = None
    /\ ret = Returned("__init__", None)
    /\ created = FALSE
    /\ rag_system = TRUE
    /\ task = [t \in Tasks |-> FreeTask]
    /\ loop = 0
    /\ ingested = [f \in FileNames |-> "never"]
    /\ observed = {}

Next ==
    \/ WriteFile
    \/ CallLoadDocuments
    \/ CallSetupVectorstore
    \/ CallCreateQaChain
    \/ CallQuery

Spec == Init /\ [][Next]_vars

-----------------------------------------------------------------------------
(* Properties of TinyRAG, checked under Spec *)

CoreOps == {"load_documents", "setup_vectorstore", "create_qa_chain", "query"}

Keys(r) == DOMAIN r

\* the last call was a query whose chain returned
QuerySucceeded == ret.op = "query" /\ ret.called /\ ~ret.out.raised

\* C1: while no create_qa_chain call has returned, query returns (does not
\* raise) a result with an 'error' key and without 'answer' and 'sources'.
C1_QueryBeforeChain ==
    (ret.op = "query" /\ ~created) =>
        /\ ret.outcome = "returned"
        /\ "error" \in Keys(ret.value)
        /\ "answer" \notin Keys(ret.value)
        /\ "sources" \notin Keys(ret.value)

\* a query on an instance whose vectorstore is set and whose chain was never
\* created
C1_Witness ==
    /\ ret.op = "query" /\ ~created /\ vectorstore = Handle
    /\ "error" \in Keys(ret.value)

\* C2 as stated: whenever the raw model output is longer than max_length, the
\* answer has max_length + 3 characters, ends with '...', and begins with the
\* first max_length characters of the raw output.
C2_TruncationOfRaw ==
    (QuerySucceeded /\ Len(ret.out.result) > ret.max_length) =>
        LET a == ret.value.answer
            n == ret.max_length
        IN  /\ Len(a) = n + 3
            /\ SubSeq(a, n + 1, n + 3) = <<".", ".", ".">>
            /\ SubSeq(a, 1, n) = SubSeq(ret.out.result, 1, n)

\* C2 amended: whenever the raw model output with its leading and trailing
\* whitespace removed is longer than max_length, the answer has max_length + 3
\* characters, ends with '...', and begins with the first max_length
\* characters of that trimmed output.
C2_TruncationOfTrimmed ==
    LET trimmed == Strip(ret.out.result)
    IN  (QuerySucceeded /\ Len(trimmed) > ret.max_length) =>
            LET a == ret.value.answer
                n == ret.max_length
            IN  /\ Len(a) = n + 3
                /\ SubSeq(a, n + 1, n + 3) = <<".", ".", ".">>
                /\ SubSeq(a, 1, n) = SubSeq(trimmed, 1, n)

\* a truncated answer whose raw output began with whitespace
C2_Witness ==
    /\ QuerySucceeded
    /\ Len(Strip(ret.out.result)) > ret.max_length
    /\ ret.out.result[1] \in Whitespace
    /\ Len(ret.value.answer) = ret.max_length + 3

\* C7: every public operation of TinyRAG returns; none raises.
C7_NeverRaises == ret.op \in CoreOps => ret.outcome = "returned"

\* C8: every result of query has exactly the keys {answer, sources, model} or
\* exactly the keys {error, model}.
C8_ResultShapes ==
    ret.op = "query" =>
        \/ Keys(ret.value) = {"answer", "sources", "model"}
        \/ Keys(ret.value) = {"error", "model"}

\* C9: a successful query returns one source entry per retrieved document, in
\* retrieval order; the entry's content is the whole page_content when that
\* has at most 100 characters, else its first 100 characters followed by
\* '...'; its source is the document's source, 'unknown' when it has none.
C9_Evidence ==
    QuerySucceeded =>
        LET docs == ret.out.source_documents
            srcs == ret.value.sources
        IN  /\ Len(srcs) = Len(docs)
            /\ \A i \in 1..Len(docs) :
                  LET text == docs[i].page_content
                  IN  /\ srcs[i].content =
                            IF Len(text) <= 100 THEN text
                            ELSE SubSeq(text, 1, 100) \o <<".", ".", ".">>
                      /\ srcs[i].source =
                            IF docs[i].source = NoSource THEN "unknown"
                            ELSE docs[i].source

\* two documents retrieved: one of exactly 100 characters without a source,
\* one longer than 100 characters loaded from a file
C9_Witness ==
    /\ QuerySucceeded
    /\ Len(ret.out.source_documents) = 2
    /\ \E i, j \in 1..2 :
          /\ Len(ret.out.source_documents[i].page_content) = 100
          /\ ret.out.source_documents[i].source = NoSource
          /\ Len(ret.out.source_documents[j].page_content) > 100
          /\ ret.out.source_documents[j].source \in FileNames
          /\ Len(ret.value.sources[j].content) = 103

\* C10: qa_chain is set only if vectorstore is set; a create_qa_chain call
\* made while vectorstore is unset raises and changes neither field; query
\* changes neither field.
C10_Lifecycle ==
    /\ (qa_chain # None => vectorstore # None)
    /\ [][ /\ qa_chain' # None => vectorstore' # None
           /\ (ret'.op = "create_qa_chain" /\ vectorstore = None) =>
                  /\ ret'.outcome = "raised"
                  /\ UNCHANGED <<qa_chain, vectorstore>>
           /\ ret'.op = "query" => UNCHANGED <<qa_chain, vectorstore>>
         ]_vars

\* create_qa_chain has just raised on an instance whose setup_vectorstore was
\* never successful, after documents were loaded
C10_Witness ==
    /\ ret.op = "create_qa_chain" /\ ret.outcome = "raised"
    /\ vectorstore = None /\ qa_chain = None
    /\ files["a.txt"] # NoFile

-----------------------------------------------------------------------------
(* Properties of the service, checked under SpecApi *)

Range(seq) == {seq[i] : i \in 1..Len(seq)}

\* the collection's documents that came from file f
EntriesOf(f) == SelectSeq(collection, LAMBDA d : d.source = f)

LoadTasks == {t \in Tasks : task[t].kind = "load_text"}

\* C3: once the latest /load-text of a filename has succeeded, no query
\* returns as a source a document of that filename that is not a chunk of
\* the content ingested last.
C3_NoStaleEvidence ==
    QuerySucceeded =>
        \A i \in 1..Len(ret.out.source_documents) :
            LET d == ret.out.source_documents[i]
            IN  (d.source \in FileNames /\ ingested[d.source] = "ok") =>
                    d \in Range(split_documents(files[d.source], d.source))

\* C4: after a /load-text that failed, the collection holds for its filename
\* either exactly the chunks of the stored file or no entry at all.
C4_AtomicIngestion ==
    \A f \in FileNames :
        ingested[f] = "failed" =>
            \/ EntriesOf(f) = <<>>
            \/ EntriesOf(f) = split_documents(files[f], f)

\* C5: at most one /load-text is between its file write and its end at any
\* time.
C5_SingleWriter ==
    Cardinality({t \in LoadTasks : task[t].pc \in InProgress}) <= 1

\* one /load-text is in progress while another has arrived and waits
C5_Witness ==
    \E t, u \in LoadTasks :
        /\ t # u
        /\ task[t].pc = "setup"
        /\ task[u].pc = "ready"

\* C6: no /query runs while a /load-text is between its file write and its
\* end.
C6_NoPartialRead == observed \cap InProgress = {}

\* a query answered by the chain while a /load-text had arrived and waited
C6_Witness ==
    /\ ret.op = "query" /\ ret.called
    /\ "ready" \in observed

=============================================================================
